---------------------------- MODULE Spec2Model ----------------------------
(***************************************************************************)
(* LoL Win Predictor API: the three Express services of the repository     *)
(*   rule   - src/unnamed/part_000 (rule-based simplePrediction)           *)
(*   ml     - src/unnamed/part_001 (logistic regression mlPrediction)      *)
(*   python - src/api/index.js     (callPythonModel, a spawned subprocess) *)
(* A deployment runs exactly one of them; `variant` says which.            *)
(*                                                                         *)
(* JavaScript numbers are modelled as exact rationals together with NaN    *)
(* and the two infinities; strings are sequences of one-character strings. *)
(***************************************************************************)
EXTENDS Integers, Sequences, FiniteSets, TLC

\* ------------------------------------------------------------------------
\* JavaScript numbers: [k |-> "num", n |-> numerator, d |-> denominator > 0]
\* in lowest terms, NaN, +Infinity and -Infinity.
\* ------------------------------------------------------------------------
RECURSIVE Gcd(_, _)
Gcd(a, b) == IF b = 0 THEN a ELSE Gcd(b, a % b)

AbsInt(a) == IF a < 0 THEN -a ELSE a

SignInt(a) == IF a < 0 THEN -1 ELSE IF a > 0 THEN 1 ELSE 0

NaN == [k |-> "nan", n |-> 0, d |-> 1]

Infinity(s) == [k |-> "inf", n |-> s, d |-> 1]

\* the rational a/b in lowest terms, b # 0
Rat(a, b) ==
    LET g == Gcd(AbsInt(a), AbsInt(b))
        s == IF b < 0 THEN -1 ELSE 1
    IN  [k |-> "num", n |-> s * (a \div g), d |-> s * (b \div g)]

Num(a) == [k |-> "num", n |-> a, d |-> 1]

IsNaN(x) == x.k = "nan"

IsNum(x) == x.k = "num"

IsInf(x) == x.k = "inf"

\* sign of a number that is not NaN
Sgn(x) == SignInt(x.n)

RNeg(x) == IF IsNaN(x) THEN NaN ELSE [x EXCEPT !.n = -x.n]

RAbs(x) == IF IsNaN(x) THEN NaN ELSE [x EXCEPT !.n = AbsInt(x.n)]

\* x + y
RAdd(x, y) ==
    IF IsNaN(x) \/ IsNaN(y) THEN NaN
    ELSE IF IsInf(x) /\ IsInf(y) THEN (IF x.n = y.n THEN x ELSE NaN)
    ELSE IF IsInf(x) THEN x
    ELSE IF IsInf(y) THEN y
    ELSE LET g == Gcd(x.d, y.d)
         IN  Rat(x.n * (y.d \div g) + y.n * (x.d \div g), (x.d \div g) * y.d)

RSub(x, y) == RAdd(x, RNeg(y))

\* x * y, cancelling across before multiplying
RMul(x, y) ==
    IF IsNaN(x) \/ IsNaN(y) THEN NaN
    ELSE IF IsInf(x) \/ IsInf(y)
         THEN (IF Sgn(x) = 0 \/ Sgn(y) = 0 THEN NaN ELSE Infinity(Sgn(x) * Sgn(y)))
    ELSE LET g1 == Gcd(AbsInt(x.n), y.d)
             g2 == Gcd(AbsInt(y.n), x.d)
         IN  Rat((x.n \div g1) * (y.n \div g2), (x.d \div g2) * (y.d \div g1))

\* x / y: a zero divisor gives an infinity, or NaN for 0/0, as in JavaScript
RDiv(x, y) ==
    IF IsNaN(x) \/ IsNaN(y) THEN NaN
    ELSE IF IsInf(x) THEN (IF IsInf(y) THEN NaN
                           ELSE Infinity(x.n * (IF Sgn(y) < 0 THEN -1 ELSE 1)))
    ELSE IF IsInf(y) THEN Num(0)
    ELSE IF y.n = 0 THEN (IF x.n = 0 THEN NaN ELSE Infinity(Sgn(x)))
    ELSE RMul(x, Rat(y.d, y.n))

\* x < y on numbers that are not NaN
LessThan(x, y) ==
    IF IsInf(x) THEN x.n < 0 /\ ~(IsInf(y) /\ y.n < 0)
    ELSE IF IsInf(y) THEN y.n > 0
    ELSE LET g == Gcd(x.d, y.d)
         IN  x.n * (y.d \div g) < y.n * (x.d \div g)

\* the JavaScript comparisons: false as soon as an operand is NaN
RGt(x, y) == ~IsNaN(x) /\ ~IsNaN(y) /\ LessThan(y, x)

RLe(x, y) == ~IsNaN(x) /\ ~IsNaN(y) /\ ~LessThan(y, x)

\* Math.min, Math.max: NaN as soon as an argument is NaN
MathMin(x, y) ==
    IF IsNaN(x) \/ IsNaN(y) THEN NaN ELSE IF LessThan(y, x) THEN y ELSE x

MathMax(x, y) ==
    IF IsNaN(x) \/ IsNaN(y) THEN NaN ELSE IF LessThan(x, y) THEN y ELSE x

MathAbs(x) == RAbs(x)

\* Math.round: the integer nearest to x, halves rounded up
MathRound(x) ==
    IF ~IsNum(x) THEN x
    ELSE Num((2 * x.n + x.d) \div (2 * x.d))

\* ------------------------------------------------------------------------
\* JavaScript strings: sequences of one-character strings.
\* ------------------------------------------------------------------------
UpperCase == <<"T", "E", "A", "M", "N", "Y">>

LowerCase == <<"t", "e", "a", "m", "n", "y">>

\* one character of String.prototype.toLowerCase
LowerChar(c) ==
    IF \E i \in DOMAIN UpperCase : UpperCase[i] = c
    THEN LowerCase[CHOOSE i \in DOMAIN UpperCase : UpperCase[i] = c]
    ELSE c

\* String.prototype.toLowerCase
toLowerCase(s) == [i \in DOMAIN s |-> LowerChar(s[i])]

Digits == <<"0", "1", "2", "3", "4", "5", "6", "7", "8", "9">>

IsDigit(c) == \E i \in DOMAIN Digits : Digits[i] = c

DigitValue(c) == (CHOOSE i \in DOMAIN Digits : Digits[i] = c) - 1

IsSpace(c) == c \in {" ", "\n"}

\* the string without its leading white space
RECURSIVE SkipSpace(_)
SkipSpace(s) ==
    IF s # <<>> /\ IsSpace(Head(s)) THEN SkipSpace(Tail(s)) ELSE s

\* the value of the longest prefix of digits of s, after the digits read so far
\* (acc, with any = TRUE once a digit was read); NaN when there is no digit
RECURSIVE ParseDigits(_, _, _)
ParseDigits(s, acc, any) ==
    IF s # <<>> /\ IsDigit(Head(s))
    THEN ParseDigits(Tail(s), 10 * acc + DigitValue(Head(s)), TRUE)
    ELSE IF any THEN Num(acc) ELSE NaN

\* parseInt of a string: white space, an optional sign, decimal digits; what
\* follows the digits is ignored
ParseIntString(s) ==
    LET t == SkipSpace(s)
    IN  IF t # <<>> /\ Head(t) = "-" THEN RNeg(ParseDigits(Tail(t), 0, FALSE))
        ELSE IF t # <<>> /\ Head(t) = "+" THEN ParseDigits(Tail(t), 0, FALSE)
        ELSE ParseDigits(t, 0, FALSE)

\* ------------------------------------------------------------------------
\* JSON values of a request body: a member is absent (undefined), null, an
\* integer number or a string.
\* ------------------------------------------------------------------------
Undefined == [t |-> "undefined", n |-> 0, s |-> <<>>]

Null == [t |-> "null", n |-> 0, s |-> <<>>]

JNum(i) == [t |-> "number", n |-> i, s |-> <<>>]

JStr(str) == [t |-> "string", n |-> 0, s |-> str]

\* parseInt(v): a number is converted to its decimal string and read back,
\* a string is parsed, anything else has no digits
parseInt(v) ==
    IF v.t = "number" THEN Num(v.n)
    ELSE IF v.t = "string" THEN ParseIntString(v.s)
    ELSE NaN

NumericFields ==
    <<"team_kills", "team_deaths", "team_assists", "enemy_kills",
      "enemy_deaths", "enemy_assists", "team_gold", "enemy_gold">>

\* val === undefined || val === null
IsMissing(v) == v.t = "undefined" \/ v.t = "null"

\* a presence test that misses null
MissingRequiredUndefinedOnly(body) ==
    \E i \in DOMAIN NumericFields : body[NumericFields[i]].t = "undefined"

\* a presence test that takes in dragon_acquisition
MissingRequiredAnyField(body) ==
    \/ \E i \in DOMAIN NumericFields : IsMissing(body[NumericFields[i]])
    \/ IsMissing(body.dragon_acquisition)

\* [ ...eight fields... ].some(val => val === undefined || val === null)
MissingRequired(body) ==
    \E i \in DOMAIN NumericFields : IsMissing(body[NumericFields[i]])

\* ------------------------------------------------------------------------
\* State
\* ------------------------------------------------------------------------
VARIABLES
    variant,             \* which of the three services is deployed
    MODEL_COEFFICIENTS,  \* ml: intercept and weights, in thousandths
    SCALER_PARAMS,       \* ml: mean and scale of every feature, in thousandths
    probe,               \* the request the client under study sends
    nreq,                \* number of requests received so far
    req,                 \* req[i]: the i-th request received
    resp,                \* resp[i]: the response sent to it, NoResp before
    sends,               \* sends[i]: how many times res.json ran for it
    proc,                \* python: the subprocess spawned for request i
    ret                  \* what the predictor last returned, with its locals

vars ==
    <<variant, MODEL_COEFFICIENTS, SCALER_PARAMS, probe, nreq, req, resp,
      sends, proc, ret>>

\* what a function that threw "returns"
Thrown == [k |-> "throw", n |-> 0, d |-> 1]

IsThrown(x) == x.k = "throw"

\* ------------------------------------------------------------------------
\* Rule-based predictor (src/unnamed/part_000)
\* ------------------------------------------------------------------------
\* the ratio without the floor of 1 under it
KDANoFloor(kills, assists, deaths) == RDiv(RAdd(kills, assists), deaths)

\* (kills + assists) / Math.max(1, deaths)
KDA(kills, assists, deaths) ==
    RDiv(RAdd(kills, assists), MathMax(Num(1), deaths))

\* KDA advantage (40% weight)
KdaAdvantage(score, teamKDA, enemyKDA) ==
    IF RGt(teamKDA, enemyKDA)
    THEN RAdd(score, RMul(Rat(4, 10),
                 MathMin(Rat(8, 10), RDiv(RSub(teamKDA, enemyKDA), Num(3)))))
    ELSE RSub(score, RMul(Rat(4, 10),
                 MathMin(Rat(8, 10), RDiv(RSub(enemyKDA, teamKDA), Num(3)))))

\* Gold advantage (35% weight)
GoldAdvantage(score, goldDiff) ==
    IF RGt(goldDiff, Num(0))
    THEN RAdd(score, RMul(Rat(35, 100),
                 MathMin(Rat(8, 10), RDiv(goldDiff, Num(15000)))))
    ELSE RSub(score, RMul(Rat(35, 100),
                 MathMin(Rat(8, 10), RDiv(MathAbs(goldDiff), Num(15000)))))

\* the dragon term without toLowerCase
DragonAdvantageCaseSensitive(score, dragonAcquisition) ==
    IF dragonAcquisition.t # "string" THEN Thrown
    ELSE IF dragonAcquisition.s = <<"t", "e", "a", "m">>
         THEN RAdd(score, Rat(25, 100))
    ELSE IF dragonAcquisition.s = <<"e", "n", "e", "m", "y">>
         THEN RSub(score, Rat(25, 100))
    ELSE score

\* Dragon advantage (25% weight); toLowerCase of a value that is no string
\* throws a TypeError
DragonAdvantage(score, dragonAcquisition) ==
    IF dragonAcquisition.t # "string" THEN Thrown
    ELSE IF toLowerCase(dragonAcquisition.s) = <<"t", "e", "a", "m">>
         THEN RAdd(score, Rat(25, 100))
    ELSE IF toLowerCase(dragonAcquisition.s) = <<"e", "n", "e", "m", "y">>
         THEN RSub(score, Rat(25, 100))
    ELSE score

\* the clamp without its lower bound
ClampUpperOnly(winProbability) == MathMin(Rat(95, 100), winProbability)

\* Math.max(0.05, Math.min(0.95, winProbability))
Clamp(winProbability) ==
    MathMax(Rat(5, 100), MathMin(Rat(95, 100), winProbability))

\* the locals of simplePrediction when it returns, or Thrown
simpleLocals(teamKills, teamDeaths, teamAssists, enemyKills, enemyDeaths, enemyAssists, teamGold, enemyGold, dragonAcquisition) ==
    LET teamKDA  == KDA(teamKills, teamAssists, teamDeaths)
        enemyKDA == KDA(enemyKills, enemyAssists, enemyDeaths)
        goldDiff == RSub(teamGold, enemyGold)
        score1   == KdaAdvantage(Num(0), teamKDA, enemyKDA)
        score2   == GoldAdvantage(score1, goldDiff)
        score    == DragonAdvantage(score2, dragonAcquisition)
    IN  IF IsThrown(score)
        THEN [threw |-> TRUE, teamKDA |-> teamKDA, enemyKDA |-> enemyKDA,
              goldDiff |-> goldDiff, goldPerKill |-> Num(0),
              base |-> score2, score |-> score2, value |-> Thrown]
        ELSE [threw |-> FALSE, teamKDA |-> teamKDA, enemyKDA |-> enemyKDA,
              goldDiff |-> goldDiff, goldPerKill |-> Num(0),
              base |-> score2, score |-> score,
              value |-> Clamp(RAdd(Rat(5, 10), score))]

\* simplePrediction: the win probability, or Thrown
simplePrediction(teamKills, teamDeaths, teamAssists, enemyKills, enemyDeaths, enemyAssists, teamGold, enemyGold, dragonAcquisition) ==
    simpleLocals(teamKills, teamDeaths, teamAssists, enemyKills, enemyDeaths,
                 enemyAssists, teamGold, enemyGold, dragonAcquisition).value

\* ------------------------------------------------------------------------
\* Logistic-regression predictor (src/unnamed/part_001).  The trained
\* parameters are kept in thousandths, the logit in millionths and the
\* sigmoid is read from a table of step 0.5 with linear interpolation: the
\* service's double arithmetic is approximated to about three decimals.
\* ------------------------------------------------------------------------
TrainedCoefficients ==
    [intercept |-> 166,
     coefficients |-> [dragon |-> -68, gold_diff |-> 1107,
                       gold_per_kill |-> -42, team_kda |-> 182,
                       enemy_kda |-> 125]]

TrainedScaler ==
    [mean  |-> [dragon |-> 743, gold_diff |-> 91502,
                gold_per_kill |-> 3273158, team_kda |-> 1538,
                enemy_kda |-> 1487],
     scale |-> [dragon |-> 832, gold_diff |-> 2008147,
                gold_per_kill |-> 2309459, team_kda |-> 2442,
                enemy_kda |-> 2324]]

FeatureNames ==
    <<"dragon", "gold_diff", "gold_per_kill", "team_kda", "enemy_kda">>

\* a number in thousandths, rounded down
Milli(x) == (x.n * 1000) \div x.d

\* (a * 1000) \div c without leaving 32 bits, c > 0
MulDiv1000(a, c) ==
    LET q  == a \div c
        r  == a % c
        r1 == r * 100
    IN  q * 1000 + (r1 \div c) * 10 + ((r1 % c) * 10) \div c

\* 1 / (1 + Math.exp(-logits)), in millionths, logits in millionths
SigmoidTable ==
    << 335, 553, 911, 1501, 2473, 4070,
       6693, 10987, 17986, 29312, 47426, 75858,
       119203, 182426, 268941, 377541, 500000, 622459,
       731059, 817574, 880797, 924142, 952574, 970688,
       982014, 989013, 993307, 995930, 997527, 998499,
       999089, 999447, 999665 >>

Sigmoid(logits) ==
    IF logits <= -8000000 THEN SigmoidTable[1]
    ELSE IF logits >= 8000000 THEN SigmoidTable[33]
    ELSE LET i  == (logits + 8000000) \div 500000
             r  == ((logits + 8000000) % 500000) \div 1000
             y0 == SigmoidTable[i + 1]
             y1 == SigmoidTable[i + 2]
         IN  y0 + ((y1 - y0) * r) \div 500

\* goldPerKill = (teamGold + enemyGold) / Math.max(1, totalKills)
GoldPerKill(teamGold, enemyGold, totalKills) ==
    RDiv(RAdd(teamGold, enemyGold), MathMax(Num(1), totalKills))

\* teamKda, enemyKda of mlPrediction
mlKda(kills, assists, deaths) ==
    RDiv(RAdd(kills, assists), MathMax(Num(1), deaths))

\* (value - SCALER_PARAMS.mean[feature]) / SCALER_PARAMS.scale[feature]
Scaled(features, feature) ==
    MulDiv1000(Milli(features[feature]) - SCALER_PARAMS.mean[feature],
               SCALER_PARAMS.scale[feature])

\* logits: the intercept plus every scaled feature times its coefficient
RECURSIVE SumLogits(_, _)
SumLogits(features, i) ==
    IF i > Len(FeatureNames) THEN MODEL_COEFFICIENTS.intercept * 1000
    ELSE Scaled(features, FeatureNames[i])
             * MODEL_COEFFICIENTS.coefficients[FeatureNames[i]]
         + SumLogits(features, i + 1)

\* mlPrediction: {win_probability, features, logits}, or threw
mlPrediction(teamKills, teamDeaths, teamAssists, enemyKills, enemyDeaths, enemyAssists, teamGold, enemyGold, dragonAcquisition) ==
    LET teamKda     == mlKda(teamKills, teamAssists, teamDeaths)
        enemyKda    == mlKda(enemyKills, enemyAssists, enemyDeaths)
        goldDiff    == RSub(teamGold, enemyGold)
        totalKills  == RAdd(teamKills, enemyKills)
        goldPerKill == GoldPerKill(teamGold, enemyGold, totalKills)
        threw       == dragonAcquisition.t # "string"
        dragon      == IF threw THEN Num(0)
                       ELSE IF toLowerCase(dragonAcquisition.s)
                                   = <<"t", "e", "a", "m">>
                            THEN Num(1) ELSE Num(0)
        features    == [dragon |-> dragon, gold_diff |-> goldDiff,
                        gold_per_kill |-> goldPerKill, team_kda |-> teamKda,
                        enemy_kda |-> enemyKda]
        finite      == \A i \in DOMAIN FeatureNames :
                           IsNum(features[FeatureNames[i]])
        logits      == IF finite /\ ~threw THEN SumLogits(features, 1) ELSE 0
    IN  [threw |-> threw, features |-> features, finite |-> finite,
         logits |-> logits,
         win_probability |-> IF threw THEN Thrown
                             ELSE IF finite
                                  THEN Rat(Sigmoid(logits), 1000000)
                             ELSE NaN]

\* ------------------------------------------------------------------------
\* Responses.  Every response is a record of the same shape; a member the
\* handler did not set is absent.
\* ------------------------------------------------------------------------
Absent == [k |-> "absent", n |-> 0, d |-> 1]

JsonNull == [k |-> "null", n |-> 0, d |-> 1]

\* JSON.stringify of a number: NaN and the infinities become null
JsonNumber(x) == IF IsNum(x) THEN x ELSE JsonNull

NoText == [present |-> FALSE, s |-> <<>>]

Text(str) == [present |-> TRUE, s |-> str]

NoError == [kind |-> "absent", code |-> Undefined, text |-> <<>>]

ErrorMessage(kind, code, text) == [kind |-> kind, code |-> code, text |-> text]

NoStats ==
    [present |-> FALSE, team_kda |-> Absent, enemy_kda |-> Absent,
     gold_difference |-> Absent, gold_per_kill |-> Absent,
     dragon_advantage |-> Undefined]

NoModelInfo ==
    [present |-> FALSE, accuracy |-> Absent, algorithm |-> "",
     raw_probability |-> Absent]

AvailableEndpoints == <<"/api/predict", "/api/health", "/api/test">>

\* a JSON response with nothing set but its status
Json(status) ==
    [status |-> status, ctype |-> "json", doc |-> "", success |-> "absent",
     error |-> NoError, note |-> "", win_probability |-> Absent,
     message |-> Absent, calculated_stats |-> NoStats,
     model_info |-> NoModelInfo, prediction_label |-> NoText,
     available_endpoints |-> <<>>]

NoResp == [Json(0) EXCEPT !.ctype = "none"]

\* res.status(400).json({success: false, error: 'Missing required fields'})
MissingFieldsResponse ==
    [Json(400) EXCEPT !.success = "false",
                      !.error = ErrorMessage("missing", Undefined, <<>>)]

\* the catch block of the rule-based service: error.message only
ruleCatch(kind) ==
    [Json(500) EXCEPT !.success = "false",
                      !.error = ErrorMessage(kind, Undefined, <<>>)]

\* the catch block of the logistic-regression service adds a note
mlCatch(kind) ==
    [Json(500) EXCEPT !.success = "false",
                      !.error = ErrorMessage(kind, Undefined, <<>>),
                      !.note = "Error in ML model prediction"]

\* Math.round(x * 100) / 100
Round2(x) == RDiv(MathRound(RMul(x, Num(100))), Num(100))

\* Math.round(winProb * 100 * 100) / 100
Percent(winProb) ==
    RDiv(MathRound(RMul(RMul(winProb, Num(100)), Num(100))), Num(100))

\* calculated_stats of the rule-based service, recomputed from the body
ruleStatsKDA(kills, assists, deaths) ==
    Round2(RDiv(RAdd(parseInt(kills), parseInt(assists)),
                MathMax(Num(1), parseInt(deaths))))

\* app.post('/api/predict') of the rule-based service
rulePredict(body) ==
    IF MissingRequired(body) THEN MissingFieldsResponse
    ELSE LET winProb ==
                 simplePrediction(
                     parseInt(body.team_kills), parseInt(body.team_deaths),
                     parseInt(body.team_assists), parseInt(body.enemy_kills),
                     parseInt(body.enemy_deaths), parseInt(body.enemy_assists),
                     parseInt(body.team_gold), parseInt(body.enemy_gold),
                     body.dragon_acquisition)
         IN  IF IsThrown(winProb) THEN ruleCatch("TypeError")
             ELSE [Json(200) EXCEPT
                     !.success = "true",
                     !.win_probability = JsonNumber(Percent(winProb)),
                     !.message = Percent(winProb),
                     !.note = "Prediction based on rule-based algorithm (JavaScript version)",
                     !.calculated_stats =
                         [present |-> TRUE,
                          team_kda |-> JsonNumber(ruleStatsKDA(
                              body.team_kills, body.team_assists,
                              body.team_deaths)),
                          enemy_kda |-> JsonNumber(ruleStatsKDA(
                              body.enemy_kills, body.enemy_assists,
                              body.enemy_deaths)),
                          gold_difference |-> JsonNumber(RSub(
                              parseInt(body.team_gold),
                              parseInt(body.enemy_gold))),
                          gold_per_kill |-> Absent,
                          dragon_advantage |-> body.dragon_acquisition]]

\* app.post('/api/predict') of the logistic-regression service
mlPredict(body) ==
    IF MissingRequired(body) THEN MissingFieldsResponse
    ELSE LET prediction ==
                 mlPrediction(
                     parseInt(body.team_kills), parseInt(body.team_deaths),
                     parseInt(body.team_assists), parseInt(body.enemy_kills),
                     parseInt(body.enemy_deaths), parseInt(body.enemy_assists),
                     parseInt(body.team_gold), parseInt(body.enemy_gold),
                     body.dragon_acquisition)
             winProbPercent == Percent(prediction.win_probability)
         IN  IF prediction.threw THEN mlCatch("TypeError")
             ELSE [Json(200) EXCEPT
                     !.success = "true",
                     !.win_probability = JsonNumber(winProbPercent),
                     !.message = winProbPercent,
                     !.note = "Prediction from trained Logistic Regression model (JavaScript implementation)",
                     !.calculated_stats =
                         [present |-> TRUE,
                          team_kda |-> JsonNumber(
                              Round2(prediction.features.team_kda)),
                          enemy_kda |-> JsonNumber(
                              Round2(prediction.features.enemy_kda)),
                          gold_difference |-> JsonNumber(
                              prediction.features.gold_diff),
                          gold_per_kill |-> JsonNumber(MathRound(
                              prediction.features.gold_per_kill)),
                          dragon_advantage |-> body.dragon_acquisition],
                     !.model_info =
                         [present |-> TRUE, accuracy |-> Rat(701, 1000),
                          algorithm |-> "Logistic Regression",
                          raw_probability |-> JsonNumber(RDiv(MathRound(RMul(
                              prediction.win_probability, Num(10000))),
                              Num(10000)))]]

\* ------------------------------------------------------------------------
\* External-process predictor (src/api/index.js).
\*
\* What the subprocess writes is a sequence of byte strings.  "C3" and "A9"
\* are the two bytes of one two-byte UTF-8 character; every other element
\* is a run of ASCII bytes, which decodes to itself wherever a chunk ends:
\*   "{T"    {"success":true,"win_probability":73.2,"calculated_stats":{..},
\*           "model_info":{..},"prediction_label":"
\*   "}"     "}                      (closes the label and the object)
\*   "{F}"   {"success":false,"error":"E"}
\*   "{}"    {"win_probability":50}  (an object without a success member)
\*   "null"  null
\*   "\n"    a line feed
\*   "X"     text that is no JSON
\* ------------------------------------------------------------------------
\* Buffer.prototype.toString of one chunk: UTF-8, an incomplete character
\* decodes to U+FFFD
RECURSIVE BufferToString(_)
BufferToString(data) ==
    IF data = <<>> THEN <<>>
    ELSE IF Head(data) = "C3" /\ Len(data) >= 2 /\ data[2] = "A9"
         THEN <<"U+00E9">> \o BufferToString(Tail(Tail(data)))
    ELSE IF Head(data) \in {"C3", "A9"}
         THEN <<"U+FFFD">> \o BufferToString(Tail(data))
    ELSE <<Head(data)>> \o BufferToString(Tail(data))

RECURSIVE TrimStart(_)
TrimStart(s) == IF s # <<>> /\ IsSpace(Head(s)) THEN TrimStart(Tail(s)) ELSE s

RECURSIVE TrimEnd(_)
TrimEnd(s) ==
    IF s # <<>> /\ IsSpace(s[Len(s)])
    THEN TrimEnd(SubSeq(s, 1, Len(s) - 1))
    ELSE s

\* String.prototype.trim
Trim(s) == TrimEnd(TrimStart(s))

\* the documents the subprocess can print, as JSON.parse returns them
NoDocument ==
    [valid |-> FALSE, isNull |-> FALSE, success |-> "absent",
     win_probability |-> Absent, calculated_stats |-> NoStats,
     model_info |-> NoModelInfo, prediction_label |-> NoText,
     error |-> NoText]

PythonStats ==
    [present |-> TRUE, team_kda |-> Rat(463, 100), enemy_kda |-> Num(2),
     gold_difference |-> Num(3000), gold_per_kill |-> Num(3222),
     dragon_advantage |-> JStr(<<"t", "e", "a", "m">>)]

PythonModelInfo ==
    [present |-> TRUE, accuracy |-> Rat(701, 1000),
     algorithm |-> "Logistic Regression", raw_probability |-> Rat(732, 1000)]

IsLabelText(s) == \A i \in DOMAIN s : s[i] \in {"U+00E9", "U+FFFD"}

\* JSON.parse: white space around one value; .valid = FALSE is a SyntaxError
JSONParse(text) ==
    LET t == TrimEnd(TrimStart(text))
    IN  IF t = <<"null">> THEN [NoDocument EXCEPT !.valid = TRUE, !.isNull = TRUE]
        ELSE IF t = <<"{F}">>
             THEN [NoDocument EXCEPT !.valid = TRUE, !.success = "false",
                                     !.error = Text(<<"E">>)]
        ELSE IF t = <<"{}">>
             THEN [NoDocument EXCEPT !.valid = TRUE,
                                     !.win_probability = Num(50)]
        ELSE IF /\ Len(t) >= 2
                /\ t[1] = "{T"
                /\ t[Len(t)] = "}"
                /\ IsLabelText(SubSeq(t, 2, Len(t) - 1))
             THEN [NoDocument EXCEPT
                     !.valid = TRUE, !.success = "true",
                     !.win_probability = Rat(732, 10),
                     !.calculated_stats = PythonStats,
                     !.model_info = PythonModelInfo,
                     !.prediction_label = Text(SubSeq(t, 2, Len(t) - 1))]
        ELSE NoDocument

\* a promise's outcome
Pending == [state |-> "pending", value |-> NoDocument, reason |-> NoError]

Resolved(result) ==
    [state |-> "resolved", value |-> result, reason |-> NoError]

Rejected(err) == [state |-> "rejected", value |-> NoDocument, reason |-> err]

\* resolve and reject: only the first call settles the promise
resolve(promise, result) ==
    IF promise.state = "pending" THEN Resolved(result) ELSE promise

reject(promise, err) ==
    IF promise.state = "pending" THEN Rejected(err) ELSE promise

\* a 'close' handler that leaves errorString out of the message
onCloseExitWithoutStderr(promise, code, dataString, errorString) ==
    IF code = JNum(0)
    THEN IF JSONParse(Trim(dataString)).valid
         THEN resolve(promise, JSONParse(Trim(dataString)))
         ELSE reject(promise, ErrorMessage("parse", Undefined, dataString))
    ELSE reject(promise, ErrorMessage("exit", code, <<>>))

\* a 'close' handler that reports unparsable output as an exit failure
onCloseParseAsExit(promise, code, dataString, errorString) ==
    IF code = JNum(0) /\ JSONParse(Trim(dataString)).valid
    THEN resolve(promise, JSONParse(Trim(dataString)))
    ELSE reject(promise, ErrorMessage("exit", code, errorString))

\* pythonProcess.on('close'): code, and the two strings collected so far
onClose(promise, code, dataString, errorString) ==
    IF code = JNum(0)
    THEN IF JSONParse(Trim(dataString)).valid
         THEN resolve(promise, JSONParse(Trim(dataString)))
         ELSE reject(promise, ErrorMessage("parse", Undefined, dataString))
    ELSE reject(promise, ErrorMessage("exit", code, errorString))

\* an 'error' handler that does not reject
onErrorIgnored(promise, message) == promise

\* pythonProcess.on('error')
onError(promise, message) ==
    reject(promise, ErrorMessage("launch", Undefined, message))

\* a success branch that leaves prediction_label out
afterAwaitDropsLabel(promise) ==
    IF promise.state = "rejected"
    THEN [Json(500) EXCEPT !.success = "false", !.error = promise.reason,
                           !.note = "Error calling Python ML model service"]
    ELSE IF promise.value.isNull
    THEN [Json(500) EXCEPT
            !.success = "false",
            !.error = ErrorMessage("TypeError", Undefined, <<>>),
            !.note = "Error calling Python ML model service"]
    ELSE IF promise.value.success = "true"
    THEN [Json(200) EXCEPT
            !.success = "true",
            !.win_probability = promise.value.win_probability,
            !.message = promise.value.win_probability,
            !.note = "Prediction from Python scikit-learn model",
            !.calculated_stats = promise.value.calculated_stats,
            !.model_info = promise.value.model_info]
    ELSE [Json(500) EXCEPT
            !.success = "false",
            !.error = IF promise.value.error.present
                      THEN ErrorMessage("document", Undefined,
                                        promise.value.error.s)
                      ELSE NoError]

\* the handler after `await callPythonModel(...)`, once the promise settled
afterAwait(promise) ==
    IF promise.state = "rejected"
    THEN [Json(500) EXCEPT !.success = "false", !.error = promise.reason,
                           !.note = "Error calling Python ML model service"]
    ELSE IF promise.value.isNull
    THEN [Json(500) EXCEPT
            !.success = "false",
            !.error = ErrorMessage("TypeError", Undefined, <<>>),
            !.note = "Error calling Python ML model service"]
    ELSE IF promise.value.success = "true"
    THEN [Json(200) EXCEPT
            !.success = "true",
            !.win_probability = promise.value.win_probability,
            !.message = promise.value.win_probability,
            !.note = "Prediction from Python scikit-learn model",
            !.calculated_stats = promise.value.calculated_stats,
            !.model_info = promise.value.model_info,
            !.prediction_label = promise.value.prediction_label]
    ELSE [Json(500) EXCEPT
            !.success = "false",
            !.error = IF promise.value.error.present
                      THEN ErrorMessage("document", Undefined,
                                        promise.value.error.s)
                      ELSE NoError]

\* ------------------------------------------------------------------------
\* Routing.  A path is its sequence of segments: <<>> is "/", and
\* <<"api", "test">> is "/api/test".  The routes are tried in the order the
\* services register them; wild marks '/api/*'.
\* ------------------------------------------------------------------------
Route(method, path, wild, handler) ==
    [method |-> method, path |-> path, wild |-> wild, handler |-> handler]

Routes ==
    << Route("GET", <<>>, FALSE, "status"),
       Route("GET", <<"api">>, FALSE, "status"),
       Route("GET", <<"api", "test">>, FALSE, "test"),
       Route("POST", <<"api", "predict">>, FALSE, "predict"),
       Route("GET", <<"api", "health">>, FALSE, "health"),
       Route("GET", <<"api">>, TRUE, "catchall") >>

Matches(route, method, path) ==
    /\ route.method \in {method, "ALL"}
    /\ IF route.wild
       THEN /\ Len(path) > Len(route.path)
            /\ SubSeq(path, 1, Len(route.path)) = route.path
       ELSE path = route.path

\* the handler of the first route that matches, "unhandled" when none does
Dispatch(method, path) ==
    LET hits == {i \in DOMAIN Routes : Matches(Routes[i], method, path)}
    IN  IF hits = {} THEN "unhandled"
        ELSE Routes[CHOOSE i \in hits : \A j \in hits : i <= j].handler

\* GET / and GET /api, GET /api/test, GET /api/health: fixed documents
\* (their time stamps and process figures are left out)
StatusResponse(handler) == [Json(200) EXCEPT !.doc = handler]

\* app.get('/api/*')
NotFoundResponse ==
    [Json(404) EXCEPT
        !.error = ErrorMessage("API endpoint not found", Undefined, <<>>),
        !.available_endpoints = AvailableEndpoints]

\* no route matched: Express answers 404 with its own HTML page
UnhandledResponse == [Json(404) EXCEPT !.ctype = "html"]

\* ------------------------------------------------------------------------
\* Bounds and inputs
\* ------------------------------------------------------------------------
MaxRequests == 3

MaxSpawns == 2

MaxStat == 1

BigStat == 100

RequestIds == 1..MaxRequests

Variants == {"rule", "ml", "python"}

Methods == {"GET", "POST", "PUT", "DELETE"}

Paths ==
    { <<>>, <<"api">>, <<"api", "test">>, <<"api", "predict">>,
      <<"api", "health">>, <<"api", "unknown">>,
      <<"api", "predict", "extra">>, <<"other">> }

Body(tk, td, ta, ek, ed, ea, tg, eg, dragon) ==
    [team_kills |-> tk, team_deaths |-> td, team_assists |-> ta,
     enemy_kills |-> ek, enemy_deaths |-> ed, enemy_assists |-> ea,
     team_gold |-> tg, enemy_gold |-> eg, dragon_acquisition |-> dragon]

team == <<"t", "e", "a", "m">>

enemy == <<"e", "n", "e", "m", "y">>

\* a request without a JSON body: req.body is {}
EmptyBody ==
    Body(Undefined, Undefined, Undefined, Undefined, Undefined, Undefined,
         Undefined, Undefined, Undefined)

\* the documented example request
ExampleBody ==
    Body(JNum(15), JNum(8), JNum(22), JNum(12), JNum(15), JNum(18),
         JNum(45000), JNum(42000), JStr(team))

OtherBody ==
    Body(JNum(2), JNum(0), JNum(1), JNum(3), JNum(1), JNum(0),
         JNum(9000), JNum(30000), JStr(enemy))

AllFields == NumericFields \o <<"dragon_acquisition">>

\* what a member of the example body is replaced by
Replacements(field) ==
    IF field = "dragon_acquisition"
    THEN {Undefined, Null, JStr(<<"E", "n", "e", "m", "y">>), JStr(<<>>)}
    ELSE {Undefined, Null, JNum(0), JStr(<<"7">>), JStr(<<"a", "b", "c">>)}

Replaced(bodies) ==
    UNION { UNION { { [b EXCEPT ![AllFields[i]] = v] :
                        v \in Replacements(AllFields[i]) } :
                    i \in DOMAIN AllFields } :
            b \in bodies }

\* the example body with at most one, at most two members replaced
OneReplaced == {ExampleBody} \cup Replaced({ExampleBody})

TwoReplaced == OneReplaced \cup Replaced(OneReplaced)

\* the example body with at most one member undefined or null
OneMissing ==
    {ExampleBody}
        \cup { [ExampleBody EXCEPT ![AllFields[i]] = v] :
                 i \in DOMAIN AllFields, v \in {Undefined, Null} }

Request(method, path, body) ==
    [method |-> method, path |-> path, body |-> body]

NoRequest == Request("", <<>>, EmptyBody)

PredictRequests(bodies) ==
    { Request("POST", <<"api", "predict">>, b) : b \in bodies }

RouteRequests ==
    { Request(m, p, EmptyBody) : m \in Methods, p \in Paths }

\* the requests the client under study may send to a service
Probes(v) ==
    IF v = "python"
    THEN RouteRequests \cup PredictRequests(OneMissing)
    ELSE RouteRequests \cup PredictRequests(TwoReplaced)

\* the requests of other clients; the external-process service spawns for
\* the client under study only
Others(v) ==
    IF v = "python"
    THEN { Request("GET", <<"api", "health">>, EmptyBody) }
    ELSE { Request("GET", <<"api", "health">>, EmptyBody),
           Request("POST", <<"api", "predict">>, OtherBody) }

\* valid match snapshots: every statistic a non-negative integer
Stats == (0..MaxStat) \cup {BigStat}

Deaths == 0..MaxStat

Golds == {0, 5000, 500000}

CaseSpellings(word) ==
    { s \in [DOMAIN word -> {"t", "e", "a", "m", "n", "y",
                             "T", "E", "A", "M", "N", "Y"}] :
          toLowerCase(s) = word }

Dragons == {team, enemy, <<>>}

DragonSpellings ==
    CaseSpellings(team) \cup CaseSpellings(enemy)
        \cup {<<>>, <<"t", "e", "a">>, <<"t", "e", "a", "m", "s">>,
              <<"n", "o", "n", "e">>, <<" ", "t", "e", "a", "m">>}

Snapshots ==
    { Body(JNum(tk), JNum(td), JNum(ta), JNum(ek), JNum(ed), JNum(ea),
           JNum(tg), JNum(eg), JStr(dr)) :
        tk \in Stats, td \in Deaths, ta \in Stats, ek \in Stats,
        ed \in Deaths, ea \in Stats, tg \in Golds, eg \in Golds,
        dr \in Dragons }
    \cup
    { [b EXCEPT !.dragon_acquisition = JStr(dr)] :
        b \in {ExampleBody, OtherBody,
               Body(JNum(0), JNum(0), JNum(0), JNum(0), JNum(0), JNum(0),
                    JNum(0), JNum(0), JStr(team))},
        dr \in DragonSpellings }

\* ------------------------------------------------------------------------
\* The subprocess, as node's child_process reports it.  A subprocess that
\* started delivers its output in chunks of any size, then emits 'close'
\* with its exit code (null when a signal ended it).  One that could not be
\* started emits 'error' and after it 'close' with the negated errno.
\* ------------------------------------------------------------------------
Script(started, stdout, stderr, code) ==
    [started |-> started, stdout |-> stdout, stderr |-> stderr, code |-> code]

\* what a subprocess may do: its standard output, its standard error and the
\* code 'close' reports
ChildScripts ==
    { Script(TRUE, <<"{T", "C3", "A9", "}">>, <<>>, JNum(0)),
      Script(TRUE, <<"{T", "}", "\n">>, <<"X">>, JNum(0)),
      Script(TRUE, <<"\n", "{F}", "\n">>, <<>>, JNum(0)),
      Script(TRUE, <<"{}">>, <<>>, JNum(0)),
      Script(TRUE, <<"null">>, <<>>, JNum(0)),
      Script(TRUE, <<>>, <<>>, JNum(0)),
      Script(TRUE, <<"X", "{T", "\n">>, <<>>, JNum(0)),
      Script(TRUE, <<"{T", "C3">>, <<"X">>, JNum(0)),
      Script(TRUE, <<>>, <<"X", "\n">>, JNum(1)),
      Script(TRUE, <<"{T", "}">>, <<"X", "C3", "A9">>, JNum(2)),
      Script(TRUE, <<"{F}">>, <<>>, JNum(1)),
      Script(TRUE, <<"X">>, <<"X">>, Null),
      Script(FALSE, <<>>, <<>>, JNum(-2)) }

\* what the subprocess of a request may do when subprocesses of earlier
\* requests exist: print a prediction or fail
ConcurrentScripts ==
    { Script(TRUE, <<"{T", "}", "\n">>, <<"X">>, JNum(0)),
      Script(TRUE, <<>>, <<"X", "\n">>, JNum(1)) }

ScriptsAfter(spawned) ==
    IF spawned = 0 THEN ChildScripts ELSE ConcurrentScripts

\* 'spawn python ENOENT'
LaunchMessage == <<"ENOENT">>

NoProcess ==
    [phase |-> "none", script |-> Script(FALSE, <<>>, <<>>, Undefined),
     outPos |-> 0, errPos |-> 0, dataString |-> <<>>, errorString |-> <<>>,
     promise |-> Pending]

\* spawn(...), let dataString = '', let errorString = '', a pending promise
Spawned(script) ==
    [NoProcess EXCEPT !.phase = IF script.started THEN "running" ELSE "failed",
                      !.script = script]

NoReturn ==
    [called |-> FALSE, threw |-> FALSE, teamKDA |-> Absent,
     enemyKDA |-> Absent, goldDiff |-> Absent, goldPerKill |-> Absent,
     base |-> Absent, score |-> Absent, value |-> Absent]

\* ------------------------------------------------------------------------
\* Initial states
\* ------------------------------------------------------------------------
InitService ==
    /\ MODEL_COEFFICIENTS = TrainedCoefficients
    /\ SCALER_PARAMS = TrainedScaler
    /\ nreq = 0
    /\ req = [i \in RequestIds |-> NoRequest]
    /\ resp = [i \in RequestIds |-> NoResp]
    /\ sends = [i \in RequestIds |-> 0]
    /\ proc = [i \in RequestIds |-> NoProcess]
    /\ ret = NoReturn

Init ==
    /\ variant \in Variants
    /\ probe \in Probes(variant)
    /\ InitService

\* the two in-process predictors on valid match snapshots
InitPredictor ==
    /\ variant \in {"rule", "ml"}
    /\ probe \in PredictRequests(Snapshots)
    /\ InitService

\* ------------------------------------------------------------------------
\* Actions
\* ------------------------------------------------------------------------
\* request r is received as request nreq + 1; response is what its handler
\* sends before it returns (NoResp when it sends nothing yet)
Receive(r, response) ==
    /\ nreq < MaxRequests
    /\ nreq' = nreq + 1
    /\ req' = [req EXCEPT ![nreq + 1] = r]
    /\ resp' = [resp EXCEPT ![nreq + 1] = response]
    /\ sends' = [sends EXCEPT ![nreq + 1] = IF response = NoResp THEN 0 ELSE 1]

\* app.get('/') and app.get('/api')
GetStatus(r) ==
    /\ Dispatch(r.method, r.path) = "status"
    /\ Receive(r, StatusResponse("status"))
    /\ UNCHANGED <<variant, MODEL_COEFFICIENTS, SCALER_PARAMS, probe, proc, ret>>

\* app.get('/api/test')
GetTest(r) ==
    /\ Dispatch(r.method, r.path) = "test"
    /\ Receive(r, StatusResponse("test"))
    /\ UNCHANGED <<variant, MODEL_COEFFICIENTS, SCALER_PARAMS, probe, proc, ret>>

\* app.get('/api/health')
GetHealth(r) ==
    /\ Dispatch(r.method, r.path) = "health"
    /\ Receive(r, StatusResponse("health"))
    /\ UNCHANGED <<variant, MODEL_COEFFICIENTS, SCALER_PARAMS, probe, proc, ret>>

\* app.get('/api/*')
ApiCatchAll(r) ==
    /\ Dispatch(r.method, r.path) = "catchall"
    /\ Receive(r, NotFoundResponse)
    /\ UNCHANGED <<variant, MODEL_COEFFICIENTS, SCALER_PARAMS, probe, proc, ret>>

\* no route of the service matches
Unhandled(r) ==
    /\ Dispatch(r.method, r.path) = "unhandled"
    /\ Receive(r, UnhandledResponse)
    /\ UNCHANGED <<variant, MODEL_COEFFICIENTS, SCALER_PARAMS, probe, proc, ret>>

\* what simplePrediction is called with
ruleCall(body) ==
    [called |-> TRUE] @@
    simpleLocals(parseInt(body.team_kills), parseInt(body.team_deaths),
                 parseInt(body.team_assists), parseInt(body.enemy_kills),
                 parseInt(body.enemy_deaths), parseInt(body.enemy_assists),
                 parseInt(body.team_gold), parseInt(body.enemy_gold),
                 body.dragon_acquisition)

\* what mlPrediction is called with
mlCall(body) ==
    LET prediction ==
            mlPrediction(parseInt(body.team_kills), parseInt(body.team_deaths),
                         parseInt(body.team_assists), parseInt(body.enemy_kills),
                         parseInt(body.enemy_deaths), parseInt(body.enemy_assists),
                         parseInt(body.team_gold), parseInt(body.enemy_gold),
                         body.dragon_acquisition)
    IN  [called |-> TRUE, threw |-> prediction.threw,
         teamKDA |-> prediction.features.team_kda,
         enemyKDA |-> prediction.features.enemy_kda,
         goldDiff |-> prediction.features.gold_diff,
         goldPerKill |-> prediction.features.gold_per_kill,
         base |-> Absent, score |-> Absent,
         value |-> prediction.win_probability]

\* app.post('/api/predict') of the rule-based service
PostPredictRule(r) ==
    /\ variant = "rule"
    /\ Dispatch(r.method, r.path) = "predict"
    /\ Receive(r, rulePredict(r.body))
    /\ ret' = IF MissingRequired(r.body) THEN ret ELSE ruleCall(r.body)
    /\ UNCHANGED <<variant, MODEL_COEFFICIENTS, SCALER_PARAMS, probe, proc>>

\* a handler that re-centres the scaler on every prediction
PostPredictMlDrift(r) ==
    /\ variant = "ml"
    /\ Dispatch(r.method, r.path) = "predict"
    /\ Receive(r, mlPredict(r.body))
    /\ ret' = IF MissingRequired(r.body) THEN ret ELSE mlCall(r.body)
    /\ SCALER_PARAMS' = [SCALER_PARAMS EXCEPT !.mean.team_kda = @ + 1000]
    /\ UNCHANGED <<variant, MODEL_COEFFICIENTS, probe, proc>>

\* app.post('/api/predict') of the logistic-regression service
PostPredictMl(r) ==
    /\ variant = "ml"
    /\ Dispatch(r.method, r.path) = "predict"
    /\ Receive(r, mlPredict(r.body))
    /\ ret' = IF MissingRequired(r.body) THEN ret ELSE mlCall(r.body)
    /\ UNCHANGED <<variant, MODEL_COEFFICIENTS, SCALER_PARAMS, probe, proc>>

Spawns == Cardinality({i \in RequestIds : proc[i].phase # "none"})

\* app.post('/api/predict') of the external-process service, up to its await
PostPredictPython(r) ==
    /\ variant = "python"
    /\ Dispatch(r.method, r.path) = "predict"
    /\ IF MissingRequired(r.body)
       THEN /\ Receive(r, MissingFieldsResponse)
            /\ UNCHANGED proc
       ELSE /\ Spawns < MaxSpawns
            /\ Receive(r, NoResp)
            /\ \E script \in ScriptsAfter(Spawns) :
                   proc' = [proc EXCEPT ![nreq + 1] = Spawned(script)]
    /\ UNCHANGED <<variant, MODEL_COEFFICIENTS, SCALER_PARAMS, probe, ret>>

\* a continuation that every resolve and reject call runs
ResumeOnEveryCall(i, promise) ==
    IF promise.state # "pending"
    THEN /\ resp' = [resp EXCEPT ![i] = afterAwait(promise)]
         /\ sends' = [sends EXCEPT ![i] = @ + 1]
    ELSE UNCHANGED <<resp, sends>>

\* a handler without its catch: a rejection sends nothing
ResumeOnResolveOnly(i, promise) ==
    IF proc[i].promise.state = "pending" /\ promise.state = "resolved"
    THEN /\ resp' = [resp EXCEPT ![i] = afterAwait(promise)]
         /\ sends' = [sends EXCEPT ![i] = @ + 1]
    ELSE UNCHANGED <<resp, sends>>

\* the handler of request i resumes when this step settled its promise
Resume(i, promise) ==
    IF proc[i].promise.state = "pending" /\ promise.state # "pending"
    THEN /\ resp' = [resp EXCEPT ![i] = afterAwait(promise)]
         /\ sends' = [sends EXCEPT ![i] = @ + 1]
    ELSE UNCHANGED <<resp, sends>>

\* one dataString for all the calls of callPythonModel
StdoutDataShared(i) ==
    /\ proc[i].phase = "running"
    /\ \E k \in 1..(Len(proc[i].script.stdout) - proc[i].outPos) :
          LET data == SubSeq(proc[i].script.stdout, proc[i].outPos + 1,
                             proc[i].outPos + k)
          IN  proc' = [j \in RequestIds |->
                         IF j = i
                         THEN [proc[j] EXCEPT
                                 !.outPos = @ + k,
                                 !.dataString = @ \o BufferToString(data)]
                         ELSE IF proc[j].phase = "running"
                         THEN [proc[j] EXCEPT
                                 !.dataString = @ \o BufferToString(data)]
                         ELSE proc[j]]
    /\ UNCHANGED <<variant, MODEL_COEFFICIENTS, SCALER_PARAMS, probe, nreq,
                   req, resp, sends, ret>>

\* pythonProcess.stdout.on('data'): dataString += data.toString()
StdoutData(i) ==
    /\ proc[i].phase = "running"
    /\ \E k \in 1..(Len(proc[i].script.stdout) - proc[i].outPos) :
          LET data == SubSeq(proc[i].script.stdout, proc[i].outPos + 1,
                             proc[i].outPos + k)
          IN  proc' = [proc EXCEPT
                         ![i].outPos = @ + k,
                         ![i].dataString = @ \o BufferToString(data)]
    /\ UNCHANGED <<variant, MODEL_COEFFICIENTS, SCALER_PARAMS, probe, nreq,
                   req, resp, sends, ret>>

\* pythonProcess.stderr.on('data'): errorString += data.toString()
StderrData(i) ==
    /\ proc[i].phase = "running"
    /\ \E k \in 1..(Len(proc[i].script.stderr) - proc[i].errPos) :
          LET data == SubSeq(proc[i].script.stderr, proc[i].errPos + 1,
                             proc[i].errPos + k)
          IN  proc' = [proc EXCEPT
                         ![i].errPos = @ + k,
                         ![i].errorString = @ \o BufferToString(data)]
    /\ UNCHANGED <<variant, MODEL_COEFFICIENTS, SCALER_PARAMS, probe, nreq,
                   req, resp, sends, ret>>

\* 'close' is emitted once both streams ended, or after 'error'
CanClose(p) ==
    \/ /\ p.phase = "running"
       /\ p.outPos = Len(p.script.stdout)
       /\ p.errPos = Len(p.script.stderr)
    \/ p.phase = "errored"

\* pythonProcess.on('close'), and the handler's continuation
ProcessClose(i) ==
    /\ CanClose(proc[i])
    /\ LET promise == onClose(proc[i].promise, proc[i].script.code,
                              proc[i].dataString, proc[i].errorString)
       IN  /\ proc' = [proc EXCEPT ![i].phase = "closed",
                                   ![i].promise = promise]
           /\ Resume(i, promise)
    /\ UNCHANGED <<variant, MODEL_COEFFICIENTS, SCALER_PARAMS, probe, nreq,
                   req, ret>>

\* pythonProcess.on('error'), and the handler's continuation
ProcessError(i) ==
    /\ proc[i].phase = "failed"
    /\ LET promise == onError(proc[i].promise, LaunchMessage)
       IN  /\ proc' = [proc EXCEPT ![i].phase = "errored",
                                   ![i].promise = promise]
           /\ Resume(i, promise)
    /\ UNCHANGED <<variant, MODEL_COEFFICIENTS, SCALER_PARAMS, probe, nreq,
                   req, ret>>

Arrivals == {probe} \cup Others(variant)

Next ==
    \/ \E r \in Arrivals : GetStatus(r)
    \/ \E r \in Arrivals : GetTest(r)
    \/ \E r \in Arrivals : GetHealth(r)
    \/ \E r \in Arrivals : ApiCatchAll(r)
    \/ \E r \in Arrivals : Unhandled(r)
    \/ \E r \in Arrivals : PostPredictRule(r)
    \/ \E r \in Arrivals : PostPredictMl(r)
    \/ \E r \in Arrivals : PostPredictPython(r)
    \/ \E i \in RequestIds : StdoutData(i)
    \/ \E i \in RequestIds : StderrData(i)
    \/ \E i \in RequestIds : ProcessClose(i)
    \/ \E i \in RequestIds : ProcessError(i)

Spec == Init /\ [][Next]_vars

\* the in-process predictors applied once to a valid snapshot
NextPredictor ==
    \/ nreq = 0 /\ PostPredictRule(probe)
    \/ nreq = 0 /\ PostPredictMl(probe)

SpecPredictor == InitPredictor /\ [][NextPredictor]_vars

\* the external-process service receiving the example request repeatedly
InitConcurrent ==
    /\ variant = "python"
    /\ probe = Request("POST", <<"api", "predict">>, ExampleBody)
    /\ InitService

NextConcurrent ==
    \/ PostPredictPython(probe)
    \/ \E i \in RequestIds : StdoutData(i)
    \/ \E i \in RequestIds : StderrData(i)
    \/ \E i \in RequestIds : ProcessClose(i)
    \/ \E i \in RequestIds : ProcessError(i)

SpecConcurrent == InitConcurrent /\ [][NextConcurrent]_vars

\* the same service when every subprocess delivers its output and emits
\* 'error' or 'close' in the end: an event of a child that is due is handled
ChildEvent ==
    \E i \in RequestIds :
        StdoutData(i) \/ StderrData(i) \/ ProcessClose(i) \/ ProcessError(i)

SpecLive == SpecConcurrent /\ WF_vars(ChildEvent)

\* ------------------------------------------------------------------------
\* Properties
\* ------------------------------------------------------------------------
Received == 1..nreq

IsPredict(r) == r.method = "POST" /\ r.path = <<"api", "predict">>

\* the body has one of the eight numeric members undefined or null
LacksNumericField(body) ==
    \E f \in {"team_kills", "team_deaths", "team_assists", "enemy_kills",
              "enemy_deaths", "enemy_assists", "team_gold", "enemy_gold"} :
        body[f] \in {Undefined, Null}

\* C1: in every variant a POST /api/predict whose body lacks one of the
\* eight numeric fields is answered 400 {success: false, error: 'Missing
\* required fields'}, whichever field it is and whatever the others hold.
C1_MissingFieldIs400 ==
    \A i \in Received :
        (IsPredict(req[i]) /\ LacksNumericField(req[i].body))
            => resp[i] = MissingFieldsResponse

\* C1 happens: the logistic-regression service rejected a body whose only
\* missing member is a null enemy_gold, beside a non-numeric team_kills,
\* without calling the predictor
C1_Witness ==
    \E i \in Received :
        /\ variant = "ml"
        /\ ~ret.called
        /\ IsPredict(req[i])
        /\ req[i].body =
               [ExampleBody EXCEPT !.enemy_gold = Null,
                                   !.team_kills = JStr(<<"a", "b", "c">>)]
        /\ resp[i] = MissingFieldsResponse
        /\ proc[i] = NoProcess

\* C2: on every valid match snapshot simplePrediction returns a number in
\* the closed interval [0.05, 0.95].
C2_RuleProbabilityInBand ==
    (variant = "rule" /\ ret.called)
        => /\ IsNum(ret.value)
           /\ RLe(Rat(5, 100), ret.value)
           /\ RLe(ret.value, Rat(95, 100))

\* C2 happens: zero deaths and a large kill total put 0.5 + score above
\* 0.95, and 0.95 is returned
C2_Witness ==
    /\ variant = "rule"
    /\ ret.called
    /\ probe.body.team_deaths = JNum(0)
    /\ probe.body.team_kills = JNum(BigStat)
    /\ RGt(RAdd(Rat(5, 10), ret.score), Rat(95, 100))
    /\ ret.value = Rat(95, 100)

\* s spells word, whatever the case of its letters
Spells(s, word) ==
    /\ Len(s) = Len(word)
    /\ \A i \in DOMAIN word :
           \E j \in DOMAIN LowerCase :
               word[i] = LowerCase[j] /\ s[i] \in {LowerCase[j], UpperCase[j]}

\* the result of the rule-based predictor on the probe with another label
WithDragon(word) ==
    ruleCall([probe.body EXCEPT !.dragon_acquisition = JStr(word)]).value

\* C9: in simplePrediction every case spelling of "team" gives the result
\* of "team" and adds exactly 0.25 to the score before the clamp, every
\* spelling of "enemy" subtracts exactly 0.25, any other string adds 0.
C9_DragonTerm ==
    (variant = "rule" /\ ret.called /\ probe.body.dragon_acquisition.t = "string")
        => LET label == probe.body.dragon_acquisition.s
           IN  IF Spells(label, team)
               THEN /\ ret.score = RAdd(ret.base, Rat(25, 100))
                    /\ ret.value = WithDragon(team)
               ELSE IF Spells(label, enemy)
               THEN /\ ret.score = RSub(ret.base, Rat(25, 100))
                    /\ ret.value = WithDragon(enemy)
               ELSE ret.score = ret.base

\* C9 happens: "TeAm" was scored, 0.25 above the score without the dragon
C9_Witness ==
    /\ variant = "rule"
    /\ ret.called
    /\ probe.body.dragon_acquisition = JStr(<<"T", "e", "A", "m">>)
    /\ ret.score = RAdd(ret.base, Rat(25, 100))
    /\ ret.value # Rat(95, 100)

IntOf(v) == v.n

\* C10: with team_deaths = 0 the team KDA is team_kills + team_assists, with
\* enemy_deaths = 0 the enemy KDA is enemy_kills + enemy_assists, in both
\* in-process predictors and in calculated_stats; nothing is divided by
\* zero, the gold per kill of a match without kills included.
C10_ZeroDeathsKda ==
    (ret.called /\ nreq = 1)
        => LET b == probe.body
               stats == resp[1].calculated_stats
           IN  /\ IsNum(ret.teamKDA) /\ IsNum(ret.enemyKDA)
               /\ IsNum(stats.team_kda) /\ IsNum(stats.enemy_kda)
               /\ (b.team_deaths = JNum(0)) =>
                      /\ ret.teamKDA = Num(IntOf(b.team_kills) + IntOf(b.team_assists))
                      /\ stats.team_kda = ret.teamKDA
               /\ (b.enemy_deaths = JNum(0)) =>
                      /\ ret.enemyKDA = Num(IntOf(b.enemy_kills) + IntOf(b.enemy_assists))
                      /\ stats.enemy_kda = ret.enemyKDA
               /\ (variant = "ml") =>
                      /\ IsNum(ret.goldPerKill)
                      /\ IsNum(stats.gold_per_kill)
                      /\ (b.team_kills = JNum(0) /\ b.enemy_kills = JNum(0)) =>
                             ret.goldPerKill =
                                 Num(IntOf(b.team_gold) + IntOf(b.enemy_gold))

\* C10 happens: the logistic-regression service scored a match without
\* deaths and without kills
C10_Witness ==
    /\ variant = "ml"
    /\ ret.called
    /\ nreq = 1
    /\ probe.body.team_deaths = JNum(0)
    /\ probe.body.enemy_deaths = JNum(0)
    /\ probe.body.team_kills = JNum(0)
    /\ probe.body.enemy_kills = JNum(0)
    /\ probe.body.team_assists = JNum(BigStat)
    /\ probe.body.team_gold = JNum(5000)
    /\ ret.teamKDA = Num(BigStat)
    /\ ret.goldPerKill = RAdd(Num(5000), parseInt(probe.body.enemy_gold))
    /\ resp[1].calculated_stats.team_kda = Num(BigStat)

\* the subprocess of request i ran and 'close' was handled
RanAndClosed(i) == proc[i].phase = "closed" /\ proc[i].script.started

IsAscii(bytes) == \A k \in DOMAIN bytes : bytes[k] \notin {"C3", "A9"}

\* C3: when the subprocess closes with a non-zero exit status the request is
\* answered 500 with success false, and the error holds that exit code and
\* all the text captured from standard error.
C3_NonZeroExitIs500 ==
    \A i \in Received :
        (RanAndClosed(i) /\ proc[i].script.code # JNum(0))
            => /\ resp[i].status = 500
               /\ resp[i].success = "false"
               /\ resp[i].error.kind = "exit"
               /\ resp[i].error.code = proc[i].script.code
               /\ proc[i].errPos = Len(proc[i].script.stderr)
               /\ resp[i].error.text = proc[i].errorString
               /\ IsAscii(proc[i].script.stderr) =>
                      resp[i].error.text = proc[i].script.stderr

\* C3 happens: exit code 2 with three bytes on standard error, all of them
\* in the error of the 500 response
C3_Witness ==
    \E i \in Received :
        /\ RanAndClosed(i)
        /\ proc[i].script.code = JNum(2)
        /\ proc[i].script.stderr = <<"X", "C3", "A9">>
        /\ resp[i].status = 500
        /\ resp[i].error = ErrorMessage("exit", JNum(2), <<"X", "U+00E9">>)

\* C4: exit status 0 with captured standard output that is no JSON document
\* is answered 500 with success false; the error reports the parse failure
\* with the raw captured output, and is not the non-zero-exit error.
C4_ParseFailureIs500 ==
    \A i \in Received :
        (/\ RanAndClosed(i)
         /\ proc[i].script.code = JNum(0)
         /\ ~JSONParse(proc[i].dataString).valid)
            => /\ resp[i].status = 500
               /\ resp[i].success = "false"
               /\ resp[i].error.kind = "parse"
               /\ resp[i].error.kind # "exit"
               /\ proc[i].outPos = Len(proc[i].script.stdout)
               /\ resp[i].error.text = proc[i].dataString
               /\ IsAscii(proc[i].script.stdout) =>
                      resp[i].error.text = proc[i].script.stdout

\* C4 happens: a traceback, an unfinished document and a line feed on
\* standard output, exit status 0
C4_Witness ==
    \E i \in Received :
        /\ RanAndClosed(i)
        /\ proc[i].script.code = JNum(0)
        /\ resp[i].status = 500
        /\ resp[i].error = ErrorMessage("parse", Undefined, <<"X", "{T", "\n">>)

\* 'error' was emitted for the subprocess of request i
ErrorEmitted(i) ==
    proc[i].phase \in {"errored", "closed"} /\ ~proc[i].script.started

\* C5: once the child emitted 'error' the request is answered 500 with the
\* launch-failure message, never the exit or the parse message, whatever
\* 'close' the child emits.
C5_LaunchFailureIs500 ==
    \A i \in Received :
        ErrorEmitted(i)
            => /\ resp[i].status = 500
               /\ resp[i].success = "false"
               /\ resp[i].error = ErrorMessage("launch", Undefined, LaunchMessage)

\* C5 happens: 'error', then 'close' with a non-zero code, and the response
\* still carries the launch failure
C5_Witness ==
    \E i \in Received :
        /\ proc[i].phase = "closed"
        /\ ~proc[i].script.started
        /\ proc[i].script.code # JNum(0)
        /\ sends[i] = 1
        /\ resp[i].error.kind = "launch"

\* a route the services define
IsDefinedRoute(r) ==
    \/ r.method = "GET" /\ r.path \in {<<"api">>, <<"api", "test">>,
                                      <<"api", "health">>}
    \/ r.method = "POST" /\ r.path = <<"api", "predict">>

UnderApi(path) == path # <<>> /\ Head(path) = "api"

\* C6: a request of any method to a path under /api that matches
\* no defined route is answered 404 with the JSON list of endpoints, and a
\* defined route is never answered by the catch-all.
C6_AnyMethod ==
    \A i \in Received :
        /\ (UnderApi(req[i].path) /\ ~IsDefinedRoute(req[i]))
               => resp[i] = NotFoundResponse
        /\ IsDefinedRoute(req[i]) => resp[i] # NotFoundResponse

\* the response passes the members of document doc through
PassesThrough(response, doc) ==
    /\ response.status = 200
    /\ response.success = "true"
    /\ response.win_probability = doc.win_probability
    /\ response.calculated_stats = doc.calculated_stats
    /\ response.model_info = doc.model_info
    /\ response.prediction_label = doc.prediction_label

\* C7 as stated: exit status 0 and a valid JSON document as the
\* concatenation of the standard-output chunks are answered 200 with the
\* document's members.
C7_AnyValidDocument ==
    \A i \in Received :
        (/\ RanAndClosed(i)
         /\ proc[i].script.code = JNum(0)
         /\ JSONParse(BufferToString(proc[i].script.stdout)).valid)
            => PassesThrough(resp[i],
                             JSONParse(BufferToString(proc[i].script.stdout)))

\* C7 amended: exit status 0 and captured text (every chunk decoded as it
\* arrived) that is a valid JSON document with a true success member are
\* answered 200 with the members of that document.
C7_SuccessDocument ==
    \A i \in Received :
        (/\ RanAndClosed(i)
         /\ proc[i].script.code = JNum(0)
         /\ JSONParse(proc[i].dataString).valid
         /\ JSONParse(proc[i].dataString).success = "true")
            => /\ PassesThrough(resp[i], JSONParse(proc[i].dataString))
               /\ resp[i].message = JSONParse(proc[i].dataString).win_probability

\* C7 happens: the document arrived in chunks that split its two-byte
\* character, and the label of the 200 response is the text as captured
C7_Witness ==
    \E i \in Received :
        /\ RanAndClosed(i)
        /\ proc[i].script.code = JNum(0)
        /\ proc[i].script.stdout = <<"{T", "C3", "A9", "}">>
        /\ proc[i].dataString = <<"{T", "U+FFFD", "U+FFFD", "}">>
        /\ resp[i].status = 200
        /\ resp[i].win_probability = Rat(732, 10)
        /\ resp[i].prediction_label = Text(<<"U+FFFD", "U+FFFD">>)

\* C8: in the rule-based and logistic-regression services the response to
\* POST /api/predict depends on the body alone: equal requests get equal
\* responses, in succession or with other requests between them, and the
\* model parameters stay what they were at start.
C8_PredictDependsOnBodyOnly ==
    /\ MODEL_COEFFICIENTS = TrainedCoefficients
    /\ SCALER_PARAMS = TrainedScaler
    /\ (variant \in {"rule", "ml"}) =>
           \A i, j \in Received :
               (IsPredict(req[i]) /\ req[i] = req[j]) => resp[i] = resp[j]

\* C8 happens: the logistic-regression service answered the example request,
\* then another client's prediction, then the example request again
C8_Witness ==
    /\ variant = "ml"
    /\ nreq = 3
    /\ req[1] = Request("POST", <<"api", "predict">>, ExampleBody)
    /\ req[2] = Request("POST", <<"api", "predict">>, OtherBody)
    /\ req[3] = req[1]
    /\ resp[1].status = 200
    /\ resp[2].status = 200
    /\ resp[2] # resp[1]
    /\ resp[3] = resp[1]

\* C11: a prediction request of the external-process service is answered at
\* most once and its promise settles at most once, whatever the order of the
\* child's 'data', 'error' and 'close' events: no step sends a second
\* response, changes a sent response or changes a settled promise.
C11_AnsweredOnce ==
    [][\A i \in RequestIds :
           /\ sends'[i] <= 1
           /\ sends[i] = 1 => (sends'[i] = 1 /\ resp'[i] = resp[i])
           /\ proc[i].promise.state # "pending" =>
                  proc'[i].promise = proc[i].promise]_vars

\* C11 happens: one child emitted 'error' and then 'close', another printed
\* a prediction and closed; each request has one response
C11_Witness ==
    \E i, j \in Received :
        /\ proc[i].phase = "closed" /\ ~proc[i].script.started
        /\ proc[i].promise.state = "rejected"
        /\ sends[i] = 1 /\ resp[i].status = 500
        /\ proc[j].phase = "closed" /\ proc[j].script.started
        /\ proc[j].promise.state = "resolved"
        /\ sends[j] = 1 /\ resp[j].status = 200

\* the one-byte characters of a text
RECURSIVE Plain(_)
Plain(text) ==
    IF text = <<>> THEN <<>>
    ELSE IF Head(text) \in {"C3", "A9", "U+00E9", "U+FFFD"}
         THEN Plain(Tail(text))
    ELSE <<Head(text)>> \o Plain(Tail(text))

\* how the promise of request i settles on what its own subprocess did
OwnOutcome(i) ==
    IF proc[i].script.started
    THEN onClose(Pending, proc[i].script.code, proc[i].dataString,
                 proc[i].errorString)
    ELSE onError(Pending, LaunchMessage)

\* C12: with several prediction requests of the external-process service in
\* flight and their subprocess events interleaved, the strings collected for
\* a request hold the output of its own subprocess only, its response is
\* built from them and its own exit status, and a subprocess that has not
\* closed does not keep the events of another from being handled.
C12_RequestsIndependent ==
    \A i \in RequestIds :
        /\ Plain(proc[i].dataString) =
               Plain(SubSeq(proc[i].script.stdout, 1, proc[i].outPos))
        /\ Plain(proc[i].errorString) =
               Plain(SubSeq(proc[i].script.stderr, 1, proc[i].errPos))
        /\ (proc[i].phase # "none" /\ sends[i] = 1) =>
               resp[i] = afterAwait(OwnOutcome(i))
        /\ CanClose(proc[i]) => ENABLED ProcessClose(i)
        /\ proc[i].phase = "failed" => ENABLED ProcessError(i)

\* C12 happens: the later of two requests in flight is answered with its
\* subprocess's prediction while the earlier one, whose subprocess has
\* written to both streams, still waits
C12_Witness ==
    \E i, j \in Received :
        /\ j < i
        /\ proc[j].phase = "running"
        /\ proc[j].outPos > 0 /\ proc[j].errPos > 0
        /\ sends[j] = 0
        /\ proc[i].phase = "closed"
        /\ proc[i].script.stdout # proc[j].script.stdout
        /\ resp[i].status = 200

\* request i carries the eight numeric members and no dragon_acquisition
LacksDragonOnly(i) ==
    /\ IsPredict(req[i])
    /\ \A k \in DOMAIN NumericFields :
           req[i].body[NumericFields[k]].t \notin {"undefined", "null"}
    /\ req[i].body.dragon_acquisition.t \in {"undefined", "null"}

\* C13: in the rule-based and logistic-regression services a prediction
\* request with the eight numeric members and dragon_acquisition undefined
\* or null passes validation, and the TypeError of toLowerCase is answered
\* 500 with success false and an error message: never 400, never 200, never
\* no response.
C13_AbsentDragonIs500 ==
    \A i \in Received :
        (variant \in {"rule", "ml"} /\ LacksDragonOnly(i))
            => /\ sends[i] = 1
               /\ resp[i].status = 500
               /\ resp[i].ctype = "json"
               /\ resp[i].success = "false"
               /\ resp[i].error = ErrorMessage("TypeError", Undefined, <<>>)
               /\ resp[i].win_probability = Absent

\* C13 happens: the logistic-regression service got the example request with
\* "abc" for team_kills and null for dragon_acquisition, and answered 500
C13_Witness ==
    \E i \in Received :
        /\ variant = "ml"
        /\ req[i] = Request("POST", <<"api", "predict">>,
                            [ExampleBody EXCEPT
                               !.team_kills = JStr(<<"a", "b", "c">>),
                               !.dragon_acquisition = Null])
        /\ resp[i] = mlCatch("TypeError")
        /\ ret.called /\ ret.threw

\* the subprocess of request i exists and has emitted neither 'error' nor
\* 'close'
Waiting(i) == proc[i].phase \in {"running", "failed"}

\* the subprocess of request i has emitted 'error' or 'close'
Emitted(i) == proc[i].phase \in {"errored", "closed"}

\* C14: a validated prediction request of the external-process service is
\* answered once its subprocess emits 'close' or 'error' and is not answered
\* before: the service has no timeout, and a request whose subprocess never
\* emits either stays unanswered.  When every subprocess emits one of them in
\* the end, again and again every request that spawned one has its response.
C14_AnsweredWhenChildEnds ==
    /\ [](\A i \in RequestIds :
             /\ Waiting(i) => sends[i] = 0 /\ resp[i] = NoResp
             /\ Emitted(i) => sends[i] = 1 /\ resp[i].status \in {200, 500})
    /\ []<>(\A i \in RequestIds : proc[i].phase # "none" => sends[i] = 1)

\* C14 happens: one request was answered when its subprocess closed, while
\* another, whose subprocess has ended both streams but not yet closed,
\* has no response
C14_Witness ==
    \E i, j \in Received :
        /\ proc[i].phase = "closed" /\ proc[i].script.started
        /\ proc[i].outPos > 0
        /\ sends[i] = 1
        /\ proc[j].phase = "running"
        /\ proc[j].outPos = Len(proc[j].script.stdout)
        /\ proc[j].errPos = Len(proc[j].script.stderr)
        /\ sends[j] = 0 /\ resp[j] = NoResp

=============================================================================
